---- MODULE Spec2Model ----
(***************************************************************************)
(* Model of aiobastion's EPV_AIM client (src/aiobastion/aim.py): the TLS   *)
(* set-up, the lazily created session and semaphore, and the request       *)
(* executor handle_aim_request with its classification of the response.    *)
(***************************************************************************)
EXTENDS Integers, Sequences, FiniteSets, TLC

\* ------------------------------------------------------------------ bounds

\* Number of logical tasks, each issuing one get_secret_detail call.
NumTasks == 3
\* Largest max_concurrent_tasks a client is constructed with.
MaxConcurrent == 2
\* Number of sessions (and of semaphores) one client creates in a run.
MaxOpens == 2
\* Number of TLS contexts direct calls of validate_and_setup_aim_ssl build.
MaxBuilds == 2
\* Largest number of entries of a mapping passed to valid_secret_params.
MaxEntries == 3
MaxSectionKeys == 2

Tasks == 1..NumTasks

\* ------------------------------------------------------------------ values

\* Python's None, for fields that otherwise hold a string.
NoneStr == "<None>"

\* A session / semaphore reference: None, one created by this client, or the
\* collaborator's (EPV) handed over through set_semaphore.
NoRef == [kind |-> "None", id |-> 0]
OwnRef(i) == [kind |-> "own", id |-> i]
EpvRef == [kind |-> "epv", id |-> 0]
\* A collaborator-supplied object that is not a session: it has no close().
BadRef == [kind |-> "invalid", id |-> 0]

OwnRefs == {OwnRef(i) : i \in 1..MaxOpens}
Gates == OwnRefs \cup {EpvRef}

EmptyMap == [k \in {} |-> ""]

\* Files present on disk (os.path.exists).
ExistingFiles == {"client.pem", "client.key", "ca.pem"}

VARIABLES
    cfg,             \* host, appid, cert, key, verify, max_concurrent_tasks
    session,         \* self.session
    sema,            \* self.__sema
    request_params,  \* self.request_params: "None" or "built"
    nsess,           \* sessions created by aiohttp.ClientSession() so far
    ngate,           \* semaphores created by asyncio.Semaphore() so far
    closedSessions,  \* session objects whose close() has run
    permits,         \* semaphore -> its _value
    waiters,         \* semaphore -> its FIFO queue of waiting tasks
    pc,              \* task -> "idle" | "waiting" | "granted" | "sent" | "done"
    params,          \* task -> the kwargs of its call
    sent,            \* task -> the request: url, query parameters (params_new), TLS context
    tsess,           \* task -> the session it obtained
    tgate,           \* task -> the semaphore it entered
    answer,          \* task -> what the network answered to its request
    result,          \* task -> how its call ended
    mgr,             \* lifecycle caller: "idle" | "closing"
    scope,           \* "out" | "in" (inside an async with block) | "left"
    lastClose,       \* the close_aim_session that ran last, until the next open
    ctor,            \* __init__: "new" (not yet run) | "ok" | "raised"
    nctx,            \* TLS contexts built by validate_and_setup_aim_ssl so far
    vsp,             \* a valid_secret_params call: its mapping and what it returned
    conf             \* a configuration section and what its validation made of it

vars == <<cfg, session, sema, request_params, nsess, ngate, closedSessions,
          permits, waiters, pc, params, sent, tsess, tgate, answer, result,
          mgr, scope, lastClose, ctor, nctx, vsp, conf>>

\* ------------------------------------------------------------------ configuration

\* EPV.CYBERARK_DEFAULT_VERIFY: the fallback of an unset verification policy
\* ("no verification").
CYBERARK_DEFAULT_VERIFY == [type |-> "bool", val |-> "False"]

VerifyFalse == [type |-> "bool", val |-> "False"]

\* The clients the model constructs: what __init__ accepts (verify is False
\* or a string) with the mandatory fields set or left None.
Configs ==
    [host : {"vault", NoneStr},
     appid : {"app1"},
     cert : {"client.pem", "missing.pem"},
     key : {NoneStr},
     verify : {VerifyFalse},
     max_concurrent_tasks : 1..MaxConcurrent]

\* The application ids clients are constructed with.
AppIds == {"app1", "app2"}

\* Values passed as verify: False, True, None, an existing and a missing
\* path, an integer.
VerifyArgs ==
    {VerifyFalse, [type |-> "bool", val |-> "True"], [type |-> "NoneType", val |-> "None"],
     [type |-> "str", val |-> "ca.pem"], [type |-> "str", val |-> "missing.pem"],
     [type |-> "int", val |-> "1"]}

\* The arguments __init__ is called with: every mandatory field set, left
\* None or empty.
CtorArgs ==
    [host : {"vault", NoneStr, ""},
     appid : AppIds \cup {NoneStr, ""},
     cert : {"client.pem", "missing.pem", NoneStr, ""},
     key : {NoneStr, "missing.key"},
     verify : VerifyArgs,
     max_concurrent_tasks : {1}]

\* __init__, lines 70-72: the error it raises for the arguments c ("" when
\* it raises none): verify must be False or a string.
init_error(c) ==
    IF c.verify = VerifyFalse \/ c.verify.type = "str" THEN "" ELSE "InvalidType:verify"

\* Python truthiness of an optional string.
Truthy(v) == v # NoneStr /\ v # ""

\* validate_and_setup_aim_ssl, lines 199-238: the error it raises ("" when it
\* raises none) and the value it leaves in self.verify.
ValidateResult(c) ==
    LET missing == {a \in {"host", "appid", "cert"} : c[a] = NoneStr}
        v == IF c.verify = VerifyFalse THEN CYBERARK_DEFAULT_VERIFY ELSE c.verify
    IN  IF "host" \in missing THEN [err |-> "Missing:host", verify |-> c.verify]
        ELSE IF "appid" \in missing THEN [err |-> "Missing:appid", verify |-> c.verify]
        ELSE IF "cert" \in missing THEN [err |-> "Missing:cert", verify |-> c.verify]
        ELSE IF c.cert \notin ExistingFiles
             THEN [err |-> "NotFound:cert", verify |-> c.verify]
        ELSE IF Truthy(c.key) /\ c.key \notin ExistingFiles
             THEN [err |-> "NotFound:key", verify |-> c.verify]
        ELSE IF v.type \notin {"str", "bool"}
             THEN [err |-> "InvalidType:verify", verify |-> v]
        ELSE IF v.type = "str" /\ v.val \notin ExistingFiles
             THEN [err |-> "NotFound:verify", verify |-> v]
        ELSE [err |-> "", verify |-> v]

\* The part of the client's state that session set-up reads and writes.
Handle ==
    [session |-> session, sema |-> sema, request_params |-> request_params,
     verify |-> cfg.verify, nsess |-> nsess, ngate |-> ngate,
     permits |-> permits, nctx |-> nctx, err |-> ""]

\* validate_and_setup_aim_ssl on handle h: a no-op when a session exists,
\* else validation, then request_params = {timeout, ssl}.
validate_and_setup_aim_ssl(h) ==
    IF h.session # NoRef THEN h
    ELSE LET r == ValidateResult([cfg EXCEPT !.verify = h.verify])
         IN  IF r.err # ""
             THEN [h EXCEPT !.err = r.err, !.verify = r.verify]
             ELSE [h EXCEPT !.verify = r.verify, !.request_params = "built",
                            !.nctx = h.nctx + 1]

\* asyncio.Semaphore(self.max_concurrent_tasks): the new semaphore's _value.
NewGateValue == cfg.max_concurrent_tasks

\* The second half of get_aim_session: create the semaphore when there is none.
EnsureSema(h) ==
    IF h.sema = NoRef
    THEN [h EXCEPT !.sema = OwnRef(h.ngate + 1),
                   !.ngate = h.ngate + 1,
                   !.permits = [h.permits EXCEPT ![OwnRef(h.ngate + 1)] = NewGateValue]]
    ELSE h

\* Faulty variant of EnsureSession: a session is created on every call.
EnsureSessionAlways(h) ==
    LET v == IF h.request_params = "None"
             THEN validate_and_setup_aim_ssl([h EXCEPT !.session = NoRef]) ELSE h
    IN  IF v.err # "" THEN v
        ELSE [v EXCEPT !.session = OwnRef(v.nsess + 1), !.nsess = v.nsess + 1]

\* Faulty variant of EnsureSession: the session is created before the TLS
\* parameters are built.
EnsureSessionFirst(h) ==
    IF h.session = NoRef
    THEN LET c == [h EXCEPT !.session = OwnRef(h.nsess + 1), !.nsess = h.nsess + 1]
             v == IF h.request_params = "None" THEN validate_and_setup_aim_ssl(h) ELSE h
         IN  [c EXCEPT !.err = v.err, !.verify = v.verify,
                       !.request_params = v.request_params, !.nctx = v.nctx]
    ELSE h

\* The first half of get_aim_session: create the session when there is none,
\* building the TLS parameters first when they are not cached.
EnsureSession(h) ==
    IF h.session = NoRef
    THEN LET v == IF h.request_params = "None" THEN validate_and_setup_aim_ssl(h) ELSE h
         IN  IF v.err # "" THEN v
             ELSE [v EXCEPT !.session = OwnRef(v.nsess + 1), !.nsess = v.nsess + 1]
    ELSE h

\* get_aim_session: the handle it leaves; err is the exception it raised.
get_aim_session(h) ==
    LET s == EnsureSession(h)
    IN  IF s.err # "" THEN s ELSE EnsureSema(s)

\* Whether get_aim_session stays within the model's bound on created objects.
CanOpen ==
    /\ session = NoRef => nsess < MaxOpens
    /\ sema = NoRef => ngate < MaxOpens

\* Faulty variant of set_semaphore: what the client holds is replaced.
set_semaphore_replace(h, g, s) ==
    LET v == IF h.request_params = "None"
             THEN validate_and_setup_aim_ssl([h EXCEPT !.session = NoRef]) ELSE h
    IN  IF v.err # "" THEN [v EXCEPT !.sema = g, !.session = h.session]
        ELSE [v EXCEPT !.sema = g, !.session = s]

\* set_semaphore(sema, session): adopt the collaborator's semaphore and
\* session where the client has none.
set_semaphore(h, g, s) ==
    LET a == IF h.sema = NoRef THEN [h EXCEPT !.sema = g] ELSE h
    IN  IF a.session = NoRef
        THEN LET v == IF a.request_params = "None"
                      THEN validate_and_setup_aim_ssl(a) ELSE a
             IN  IF v.err # "" THEN v ELSE [v EXCEPT !.session = s]
        ELSE a

\* ------------------------------------------------------------------ request parameters

\* _GETPASSWORD_REQUEST_PARM: the allow-list of search keys.
GETPASSWORD_REQUEST_PARM ==
    {"safe", "folder", "object", "username", "address", "database", "policyid",
     "reason", "connectiontimeout", "query", "queryformat",
     "failrequestonpasswordchange"}

\* The keys callers pass in the model, and str.lower() on them.
ParamKeys == {"safe", "Safe", "object", "foo", "appid", "applid"}
Lower(k) ==
    CASE k = "Safe" -> "safe"
      [] k = "Object" -> "object"
      [] k = "Host" -> "host"
      [] k = "CA" -> "ca"
      [] OTHER -> k

\* The value a caller gives to key k.
ParamValue(k) == IF k = "appid" THEN "callerapp" ELSE "v_" \o Lower(k)

\* A mapping with the keys K.
ParamsOf(K) == [k \in K |-> ParamValue(k)]

\* Whether a mapping holds a key whose lowercase form is not allowed.
HasUnknownKey(p) == \E k \in DOMAIN p : Lower(k) \notin GETPASSWORD_REQUEST_PARM

\* The kwargs of the calls issued concurrently, and of a single call.
ConcParams == {ParamsOf({"safe"}), ParamsOf({"foo"})}
AllParams == {ParamsOf(K) : K \in {{}, {"safe"}, {"Safe", "object"}, {"foo"},
                                    {"safe", "foo"}, {"safe", "appid"},
                                    {"safe", "applid"}}}

\* dict.setdefault(k, v).
SetDefault(p, k, v) ==
    IF k \in DOMAIN p THEN p
    ELSE [x \in DOMAIN p \cup {k} |-> IF x = k THEN v ELSE p[x]]

\* Lines 414-418: the mapping sent, a copy with the client's appid injected.
ParamsNew(p) ==
    IF "applid" \notin DOMAIN p THEN SetDefault(p, "appid", cfg.appid) ELSE p

\* get_url: the address of the endpoint.
get_url(short_url) == [host |-> cfg.host, path |-> "AIMWebService/api/" \o short_url]

\* handle_error_detail_info: the description of the request, appid masked.
handle_error_detail_info(url, p) ==
    [from |-> "request", text |-> "", url |-> url,
     params |-> IF "appid" \in DOMAIN p
                THEN [k \in DOMAIN p |-> IF k = "appid" THEN "<hidden>" ELSE p[k]]
                ELSE p]

\* Faulty variant of AfterDetailInfo: appid is masked in the mapping passed
\* in instead of in a copy.
MaskInPlace(p) ==
    IF "appid" \in DOMAIN p
    THEN [k \in DOMAIN p |-> IF k = "appid" THEN "<hidden>" ELSE p[k]]
    ELSE p

\* handle_error_detail_info, lines 388-390: the mapping passed in as it is
\* after the call; the mask went into a copy.copy of it.
AfterDetailInfo(p) == p

\* ------------------------------------------------------------------ the parameter validator

\* A Python dict as valid_secret_params sees it: its entries [k, v] in
\* insertion order, keys distinct.
Entry(k, v) == [k |-> k, v |-> v]
Keys(d) == {d[i].k : i \in DOMAIN d}
IndexOf(d, k) == CHOOSE i \in DOMAIN d : d[i].k = k

\* dict.pop(k) on d: the entries left, in order.
RECURSIVE DictPop(_, _)
DictPop(d, k) ==
    IF d = <<>> THEN <<>>
    ELSE IF Head(d).k = k THEN Tail(d)
    ELSE <<Head(d)>> \o DictPop(Tail(d), k)

\* d[k] = v: the value of an existing key is replaced where it stands, a new
\* key is appended.
DictSet(d, k, v) ==
    IF k \in Keys(d)
    THEN [i \in DOMAIN d |-> IF d[i].k = k THEN Entry(k, v) ELSE d[i]]
    ELSE Append(d, Entry(k, v))

\* The argument of a call: a dict, or something that is none.
DictArg(d) == [isdict |-> TRUE, items |-> d]
NotADict == [isdict |-> FALSE, items |-> <<>>]

NoError == [msg |-> "", key |-> "", value |-> ""]

\* Faulty variant of KeyAllowed: the key is looked up as it is written.
KeyAllowedAsWritten(k) == k \in GETPASSWORD_REQUEST_PARM

\* Line 255: whether the lowercase form of k is in the allow-list.
KeyAllowed(k) == Lower(k) \in GETPASSWORD_REQUEST_PARM

\* Lines 252-260: the loop over list(params.keys()), ks being the keys still
\* to visit and d the dict as it is by now. It stops at the first key that
\* is not allowed; a key that is not lowercase is popped and stored again
\* under its lowercase form.
RECURSIVE NormalizeKeys(_, _)
NormalizeKeys(ks, d) ==
    IF ks = <<>> THEN [mapping |-> d, error |-> NoError, raised |-> ""]
    ELSE LET k == Head(ks)
         IN  IF ~KeyAllowed(k)
             THEN IF k \in Keys(d)
                  THEN [mapping |-> d, raised |-> "",
                        error |-> [msg |-> "unknown parameter", key |-> k,
                                   value |-> d[IndexOf(d, k)].v]]
                  ELSE [mapping |-> d, error |-> NoError, raised |-> "KeyError"]
             ELSE IF k # Lower(k)
                  THEN IF k \in Keys(d)
                       THEN NormalizeKeys(Tail(ks),
                                DictSet(DictPop(d, k), Lower(k), d[IndexOf(d, k)].v))
                       ELSE [mapping |-> d, error |-> NoError, raised |-> "KeyError"]
                  ELSE NormalizeKeys(Tail(ks), d)

\* valid_secret_params(params), lines 245-262: the dict as the call leaves
\* it, the error string returned and the exception raised ("" for none).
valid_secret_params(a) ==
    IF ~a.isdict
    THEN [mapping |-> a.items, raised |-> "",
          error |-> [msg |-> "parameter is not a dictionary", key |-> "", value |-> ""]]
    ELSE NormalizeKeys([i \in DOMAIN a.items |-> a.items[i].k], a.items)

\* The keys and the dicts passed in the model: up to MaxEntries distinct keys,
\* the i-th entry holding the value "v<i>".
VspKeys == {"safe", "Safe", "object", "Object", "foo"}
PositionValue(i) == "v" \o ToString(i)
VspDicts ==
    UNION {{[i \in 1..n |-> Entry(ks[i], PositionValue(i))] :
              ks \in {q \in [1..n -> VspKeys] : \A i, j \in 1..n : q[i] = q[j] => i = j}} :
           n \in 0..MaxEntries}
VspArgs == {DictArg(d) : d \in VspDicts} \cup {NotADict}

\* ------------------------------------------------------------------ the configuration section

\* Python values of a configuration section: a type and a literal.
PyStr(x) == [type |-> "str", val |-> x]
PyInt(x) == [type |-> "int", val |-> x]
PyNone == [type |-> "NoneType", val |-> "None"]
PyTrue == [type |-> "bool", val |-> "True"]

\* A default taken from the EPV class (lines 35-37, 66-68, 94).
EpvDefault(n) == [type |-> "epv", val |-> n]

\* _SERIALIZED_FIELDS_IN, lines 24-25.
SERIALIZED_FIELDS_IN ==
    {"host", "appid", "cert", "key", "verify", "timeout", "max_concurrent_tasks",
     "keep_cookies", "passphrase"}

\* `s in t` on two strings: s is a substring of t.
IsSubstring(s, t) ==
    \E i \in 1..(Len(t) + 1) :
        \E j \in (i - 1)..Len(t) : SubSeq(t, i, j) = s

\* int(val): whether it raises ValueError, and the integer when it does not.
IntRaises(v) == ~(v.type \in {"int", "bool"} \/ (v.type = "str" /\ v.val \in {"1", "5"}))
IntOf(v) ==
    CASE v.type = "bool" -> PyInt(IF v.val = "True" THEN "1" ELSE "0")
      [] OTHER -> PyInt(v.val)

\* _to_integer, lines 180-191: the integer and the exception raised ("" for
\* none). `raise s` with s a str is a TypeError.
to_integer(v) ==
    IF IntRaises(v) THEN [val |-> PyNone, raised |-> "TypeError"]
    ELSE [val |-> IntOf(v), raised |-> ""]

\* Lines 92-102: serialized_aim before the loop.
SerializedAimDefaults ==
    <<Entry("appid", PyNone), Entry("cert", PyNone), Entry("host", PyNone),
      Entry("keep_cookies", EpvDefault("CYBERARK_DEFAULT_KEEP_COOKIES")),
      Entry("key", PyNone), Entry("max_concurrent_tasks", PyNone),
      Entry("passphrase", PyNone), Entry("timeout", PyNone), Entry("verify", PyNone)>>

\* Line 112: `keyname in "timeout"`.
IsTimeoutKey(keyname) == IsSubstring(keyname, "timeout")

\* Lines 107-131: the loop over serialized.keys(): ks the keys still to
\* visit, sec the section, d serialized_aim by now, nv and nm the two synonym
\* counters.
RECURSIVE ValidateKeys(_, _, _, _, _)
ValidateKeys(ks, sec, d, nv, nm) ==
    IF ks = <<>> THEN [stored |-> d, raised |-> "", nv |-> nv, nm |-> nm]
    ELSE LET k == Head(ks)
             keyname == Lower(k)
             v == sec[IndexOf(sec, k)].v
             stop(e) == [stored |-> d, raised |-> e, nv |-> nv, nm |-> nm]
         IN  IF keyname \in {"appid", "cert", "host", "key", "passphrase"}
             THEN ValidateKeys(Tail(ks), sec, DictSet(d, keyname, v), nv, nm)
             ELSE IF IsTimeoutKey(keyname)
             THEN IF to_integer(v).raised # "" THEN stop(to_integer(v).raised)
                  ELSE ValidateKeys(Tail(ks), sec,
                                    DictSet(d, keyname, to_integer(v).val), nv, nm)
             ELSE IF keyname = "keep_cookies"
             THEN IF v.type = "bool"
                  THEN ValidateKeys(Tail(ks), sec, DictSet(d, keyname, v), nv, nm)
                  ELSE stop("AiobastionConfigurationException")
             ELSE IF keyname \in {"maxtasks", "max_concurrent_tasks"}
             THEN IF to_integer(v).raised # "" THEN stop(to_integer(v).raised)
                  ELSE ValidateKeys(Tail(ks), sec,
                                    DictSet(d, "max_concurrent_tasks", to_integer(v).val),
                                    nv, nm + 1)
             ELSE IF keyname \in {"ca", "verify"}
             THEN ValidateKeys(Tail(ks), sec, DictSet(d, "verify", v), nv + 1, nm)
             ELSE stop("AiobastionConfigurationException")

\* _init_validate_class_attributes, lines 75-143: the dict returned and the
\* exception raised ("" for none).
init_validate_class_attributes(sec) ==
    LET r == ValidateKeys([i \in DOMAIN sec |-> sec[i].k], sec, SerializedAimDefaults, 0, 0)
    IN  IF r.raised # "" THEN [stored |-> r.stored, raised |-> r.raised]
        ELSE IF r.nv > 1 \/ r.nm > 1
        THEN [stored |-> r.stored, raised |-> "AiobastionConfigurationException"]
        ELSE [stored |-> r.stored, raised |-> ""]

\* Lines 40-48: the attributes of EPV_AIM(serialized=...) before the loop.
AttributeDefaults ==
    <<Entry("host", PyNone), Entry("appid", PyNone), Entry("cert", PyNone),
      Entry("key", PyNone), Entry("passphrase", PyNone), Entry("verify", PyNone),
      Entry("timeout", EpvDefault("CYBERARK_DEFAULT_TIMEOUT")),
      Entry("max_concurrent_tasks", EpvDefault("CYBERARK_DEFAULT_MAX_CONCURRENT_TASKS")),
      Entry("keep_cookies", EpvDefault("CYBERARK_DEFAULT_KEEP_COOKIES"))>>

\* Lines 56-61: the loop over serialized.items(), d being the attributes by
\* now.
RECURSIVE SetSerialized(_, _)
SetSerialized(items, d) ==
    IF items = <<>> THEN [stored |-> d, raised |-> ""]
    ELSE IF Lower(Head(items).k) \in SERIALIZED_FIELDS_IN
         THEN SetSerialized(Tail(items), DictSet(d, Lower(Head(items).k), Head(items).v))
         ELSE [stored |-> d, raised |-> "AiobastionException"]

\* Lines 64-68: an attribute that is None takes the default of EPV.
OrDefault(d, k, n) ==
    IF d[IndexOf(d, k)].v = PyNone THEN DictSet(d, k, EpvDefault(n)) ELSE d

\* __init__(serialized=sec), lines 40-72: the attributes of the client and the
\* exception raised ("" for none).
init_serialized(sec) ==
    LET r == SetSerialized(sec, AttributeDefaults)
        d == OrDefault(OrDefault(r.stored, "timeout", "CYBERARK_DEFAULT_TIMEOUT"),
                       "max_concurrent_tasks", "CYBERARK_DEFAULT_MAX_CONCURRENT_TASKS")
        verify == d[IndexOf(d, "verify")].v
    IN  IF r.raised # "" THEN r
        ELSE IF verify # VerifyFalse /\ verify.type # "str"
        THEN [stored |-> d, raised |-> "AiobastionException"]
        ELSE [stored |-> d, raised |-> ""]

\* The keys and values of the sections of the model, and the sections: up
\* to MaxSectionKeys distinct keys.
SectionKeys ==
    {"host", "Host", "ca", "verify", "maxtasks", "max_concurrent_tasks", "timeout",
     "time", "keep_cookies", "bogus"}
SectionValues == {PyStr("5"), PyStr("ca.pem"), PyTrue}
Sections ==
    UNION {{[i \in 1..n |-> Entry(ks[i], vs[i])] :
              ks \in {q \in [1..n -> SectionKeys] : \A i, j \in 1..n : q[i] = q[j] => i = j},
              vs \in [1..n -> SectionValues]} :
           n \in 0..MaxSectionKeys}

\* ------------------------------------------------------------------ responses

\* HTTP status codes answered; http.HTTPStatus knows all but the last.
KnownStatus == {200, 404, 500}
Statuses == KnownStatus \cup {599}

\* HTTPStatus(status).phrase.
Phrase(st) ==
    CASE st = 200 -> "OK"
      [] st = 404 -> "Not Found"
      [] st = 500 -> "Internal Server Error"
      [] OTHER -> "?"

BodyKeys == {"Content", "ErrorCode", "ErrorMsg", "Details", "X"}
ErrorCodes == {"APPAP004E", "APPAP008E"}

\* The value of field k in a JSON object answered with error code ec.
FieldValue(k, ec) ==
    CASE k = "Content" -> "p@ss"
      [] k = "ErrorCode" -> ec
      [] k = "ErrorMsg" -> "msg of " \o ec
      [] k = "Details" -> "vault details"
      [] OTHER -> "1"

\* A response body: what req.json() meets. kind is "object" (fields), "string"
\* or "list" (a JSON string / array; words are the keys the `in` operator
\* finds in it), "null", "number", "notjson" (JSONDecodeError) or "wrongtype"
\* (ContentTypeError).
Body(kind, fields, words) == [kind |-> kind, fields |-> fields, words |-> words]

ObjectBodies ==
    {Body("object", [k \in K |-> FieldValue(k, ec)], {}) :
        K \in SUBSET BodyKeys, ec \in ErrorCodes}

OtherBodies ==
    {Body(kd, EmptyMap, {}) : kd \in {"null", "number", "notjson", "wrongtype"}}
    \cup {Body(kd, EmptyMap, w) :
            kd \in {"string", "list"}, w \in {{}, {"Content"}, {"ErrorCode", "ErrorMsg"}}}

\* What the network does with a request: a transport failure (net names the
\* exception aiohttp raises) or a response.
Resp(net, st, body) == [net |-> net, status |-> st, body |-> body]
NoBody == Body("none", EmptyMap, {})

\* aiohttp.ClientError subclasses (connection refused, DNS, TLS handshake,
\* connect timeout); asyncio.TimeoutError (total timeout while reading) and
\* CancelledError are not ClientErrors.
NetFailures == {"ClientConnectorError", "ServerTimeoutError", "TimeoutError", "CancelledError"}
ClientErrors == {"ClientConnectorError", "ServerTimeoutError"}

AllResponses ==
    {Resp("ok", st, b) : st \in Statuses, b \in ObjectBodies \cup OtherBodies}
    \cup {Resp(n, 200, NoBody) : n \in NetFailures}

SuccessBody == Body("object", [k \in {"Content", "X"} |-> FieldValue(k, "APPAP004E")], {})
NotFoundBody == Body("object", [k \in {"ErrorCode", "ErrorMsg"} |-> FieldValue(k, "APPAP004E")], {})

ConcResponses ==
    {Resp("ok", 200, SuccessBody), Resp("ok", 404, NotFoundBody),
     Resp("ClientConnectorError", 200, NoBody),
     Resp("ok", 200, Body("null", EmptyMap, {}))}

\* ------------------------------------------------------------------ classification

NoUrl == [host |-> "", path |-> ""]
NoDetails == [from |-> "none", text |-> "", url |-> NoUrl, params |-> EmptyMap]
BodyDetails(v) == [from |-> "body", text |-> v, url |-> NoUrl, params |-> EmptyMap]

\* How handle_aim_request ends: exc is the exception raised ("" when it
\* returns), ret the value returned.
Raise(exc, st, code, msg, details) ==
    [exc |-> exc, status |-> st, code |-> code, msg |-> msg, details |-> details,
     ret |-> NoBody]
Return(v) ==
    [exc |-> "", status |-> 200, code |-> "", msg |-> "", details |-> NoDetails,
     ret |-> v]

\* Python's `key in resp_json`: "TypeError" where the value supports no `in`.
Contains(b, key) ==
    CASE b.kind = "object" -> IF key \in DOMAIN b.fields THEN "yes" ELSE "no"
      [] b.kind \in {"string", "list"} -> IF key \in b.words THEN "yes" ELSE "no"
      [] OTHER -> "TypeError"

\* Lines 450-452: HTTPStatus(req.status) inside the try block; its ValueError
\* for an unknown status is caught by the third except clause.
HttpErrCode(st, details, info) ==
    IF st \in KnownStatus
    THEN Raise("CyberarkAPIException", st, "HTTP_ERR_CODE", Phrase(st), details)
    ELSE Raise("CyberarkException", st, "", "ValueError", info)

\* Faulty variant of ClassifyError: the body's ErrorCode and ErrorMsg are
\* ignored and every error is reported by its HTTP status.
ClassifyErrorGeneric(st, b, info) == HttpErrCode(st, info, info)

\* Lines 436-452: a parsed body with a status other than 200.
ClassifyError(st, b, info) ==
    LET hasDetails == Contains(b, "Details")
        hasCode == Contains(b, "ErrorCode")
        hasMsg == Contains(b, "ErrorMsg")
    IN  IF hasDetails = "TypeError" THEN Raise("TypeError", st, "", "", NoDetails)
        ELSE IF hasDetails = "yes" /\ b.kind # "object"
             THEN Raise("TypeError", st, "", "", NoDetails)
        ELSE LET details == IF hasDetails = "yes"
                            THEN BodyDetails(b.fields["Details"]) ELSE info
             IN  IF hasCode = "yes" /\ hasMsg = "yes"
                 THEN IF b.kind # "object" THEN Raise("TypeError", st, "", "", NoDetails)
                      ELSE IF b.fields["ErrorCode"] = "APPAP004E"
                           THEN Raise("CyberarkAIMnotFound", st, b.fields["ErrorCode"],
                                      b.fields["ErrorMsg"], details)
                           ELSE Raise("CyberarkAPIException", st, b.fields["ErrorCode"],
                                      b.fields["ErrorMsg"], details)
                 ELSE HttpErrCode(st, details, info)

\* Lines 428-434: a parsed body with status 200.
ClassifyOk(b, info) ==
    LET hasContent == Contains(b, "Content")
    IN  IF hasContent = "TypeError" THEN Raise("TypeError", 200, "", "", NoDetails)
        ELSE IF hasContent = "no"
             THEN Raise("CyberarkAPIException", 200, "INVALID_JSON",
                        "Could not find the password ('Content')", info)
             ELSE Return(b)

\* Lines 454-457: the JSONDecodeError handler; the ValueError HTTPStatus
\* raises there for an unknown status leaves the function as it is.
ClassifyNotJson(st, info) ==
    IF st \in KnownStatus
    THEN Raise("CyberarkAPIException", st, "HTTP_ERR_CODE", Phrase(st), info)
    ELSE Raise("ValueError", st, "", "", NoDetails)

\* Lines 422-468: what handle_aim_request makes of the network's answer to
\* the request for url with the query parameters pnew.
ClassifyResponse(url, pnew, resp) ==
    LET info == handle_error_detail_info(url, pnew)
        b == resp.body
    IN  IF resp.net # "ok"
        THEN IF resp.net \in ClientErrors
             THEN Raise("CyberarkException", 0, "", resp.net, info)
             ELSE Raise(resp.net, 0, "", "", NoDetails)
        ELSE IF b.kind = "wrongtype"
             THEN Raise("CyberarkException", resp.status, "", "ContentTypeError", info)
        ELSE IF b.kind = "notjson" THEN ClassifyNotJson(resp.status, info)
        ELSE IF resp.status = 200 THEN ClassifyOk(b, info)
        ELSE ClassifyError(resp.status, b, info)

\* A call that left before any response: exc raised with message msg.
Failed(exc, msg) == Raise(exc, 0, "", msg, NoDetails)

NoSecret == [secret |-> NoneStr, detail |-> EmptyMap]

\* Faulty variant of get_secret_detail: Content is taken out of the detail.
get_secret_detail_popping(h) ==
    IF h.exc # "" THEN [h EXCEPT !.ret = NoSecret]
    ELSE IF h.ret.kind # "object"
         THEN [Raise("TypeError", h.status, "", "", NoDetails) EXCEPT !.ret = NoSecret]
         ELSE [h EXCEPT !.ret = [secret |-> h.ret.fields["Content"],
                                 detail |-> [k \in DOMAIN h.ret.fields \ {"Content"} |->
                                                h.ret.fields[k]]]]

\* get_secret_detail, lines 380-383: AIM_secret_resp(detail_info["Content"],
\* detail_info) of what handle_aim_request returned (h); subscripting a JSON
\* string or array with "Content" is a TypeError.
get_secret_detail(h) ==
    IF h.exc # "" THEN [h EXCEPT !.ret = NoSecret]
    ELSE IF h.ret.kind # "object"
         THEN [Raise("TypeError", h.status, "", "", NoDetails) EXCEPT !.ret = NoSecret]
         ELSE [h EXCEPT !.ret = [secret |-> h.ret.fields["Content"],
                                 detail |-> h.ret.fields]]

\* get_secret, lines 340-342: the secret of get_secret_detail's result (d).
get_secret(d) ==
    IF d.exc # "" THEN NoneStr ELSE d.ret.secret

\* The terminal state of a call that raised exc ("" when it returned).
ClassOf(exc) ==
    CASE exc = "" -> "Success"
      [] exc \in {"CyberarkAPIException", "CyberarkAIMnotFound"} -> "DomainError"
      [] exc = "CyberarkException" -> "TransportError"
      [] exc = "AiobastionException" -> "ConfigurationError"
      [] OTHER -> "Unclassified"

\* What a task records of its finished call.
Outcome(h) ==
    LET d == get_secret_detail(h)
    IN  [class |-> ClassOf(d.exc), exc |-> d.exc, status |-> d.status, code |-> d.code,
         msg |-> d.msg, details |-> d.details, value |-> d.ret,
         password |-> get_secret(d)]

NoResult ==
    [class |-> "", exc |-> "", status |-> 0, code |-> "", msg |-> "",
     details |-> NoDetails, value |-> NoSecret, password |-> NoneStr]

\* ------------------------------------------------------------------ the semaphore

\* Faulty variant of Locked: the semaphore never refuses entry.
LockedNever(perm, wq, g) == FALSE

\* asyncio.Semaphore.locked(): no permit left, or somebody queued before us.
Locked(perm, wq, g) == perm[g] = 0 \/ wq[g] # <<>>

\* Faulty variant of Release: the counter is raised and no waiter is woken.
ReleaseNoWake(perm, wq, g) ==
    [permits |-> [perm EXCEPT ![g] = @ + 1], waiters |-> wq, woken |-> {}]

\* asyncio.Semaphore.release(): the permit goes to the first waiter, which is
\* woken holding it, or back to the counter.
Release(perm, wq, g) ==
    IF wq[g] # <<>>
    THEN [permits |-> perm, waiters |-> [wq EXCEPT ![g] = Tail(@)],
          woken |-> {Head(wq[g])}]
    ELSE [permits |-> [perm EXCEPT ![g] = @ + 1], waiters |-> wq, woken |-> {}]

\* Faulty variant of GateExit: the permit is kept when the block is left by
\* an exception.
GateExitLeak(perm, wq, g, exc) ==
    IF exc = "" THEN Release(perm, wq, g)
    ELSE [permits |-> perm, waiters |-> wq, woken |-> {}]

\* Leaving `async with self.__sema` (line 420) with exception exc ("" for a
\* return): the permit is released either way.
GateExit(perm, wq, g, exc) == Release(perm, wq, g)

\* Faulty variant of SessionRequestError: a closed session takes the request.
SessionRequestErrorOpenOnly(s) ==
    IF s.kind = "invalid" THEN "AttributeError" ELSE ""

\* session.request on session s: aiohttp refuses a closed session, and an
\* object that is no session has no request().
SessionRequestError(s) ==
    IF s.kind = "invalid" THEN "AttributeError"
    ELSE IF s \in closedSessions THEN "RuntimeError"
    ELSE ""

NoSent == [made |-> FALSE, url |-> NoUrl, params |-> EmptyMap, ctx |-> 0]
NoAnswer == Resp("none", 0, NoBody)

\* ------------------------------------------------------------------ initial state

\* No valid_secret_params call and no configuration section under way.
NoValidation ==
    [pc |-> "none", arg |-> NotADict, mapping |-> <<>>, error |-> NoError, raised |-> ""]
NoSection == [pc |-> "none", via |-> "none", section |-> <<>>, stored |-> <<>>, raised |-> ""]

\* No close_aim_session has run since the session was last opened or handed over.
NoClose == [by |-> "none", exc |-> FALSE, target |-> NoRef, outcome |-> "none"]

\* self.session, self.__sema and self.request_params start as None (lines
\* 50-53) and nothing has been created.
Fresh ==
    /\ session = NoRef
    /\ sema = NoRef
    /\ request_params = "None"
    /\ nsess = 0
    /\ ngate = 0
    /\ closedSessions = {}
    /\ permits = [g \in Gates |-> IF g = EpvRef THEN MaxConcurrent ELSE 0]
    /\ waiters = [g \in Gates |-> <<>>]
    /\ pc = [t \in Tasks |-> "idle"]
    /\ params = [t \in Tasks |-> EmptyMap]
    /\ sent = [t \in Tasks |-> NoSent]
    /\ tsess = [t \in Tasks |-> NoRef]
    /\ tgate = [t \in Tasks |-> NoRef]
    /\ answer = [t \in Tasks |-> NoAnswer]
    /\ result = [t \in Tasks |-> NoResult]
    /\ mgr = "idle"
    /\ scope = "out"
    /\ lastClose = NoClose
    /\ nctx = 0

\* A client constructed from arguments __init__ accepts.
Init ==
    /\ cfg \in Configs
    /\ ctor = "ok"
    /\ Fresh
    /\ vsp = NoValidation
    /\ conf = NoSection

\* Before __init__ has run, cfg holding its arguments.
BuildInit ==
    /\ cfg \in CtorArgs
    /\ ctor = "new"
    /\ Fresh
    /\ vsp = NoValidation
    /\ conf = NoSection

\* ------------------------------------------------------------------ the request executor

\* The tasks in w resume holding a permit.
Wake(f, w) == [x \in Tasks |-> IF x \in w THEN "granted" ELSE f[x]]

\* Task t leaves the block of semaphore g with the outcome h of
\* handle_aim_request.
Leave(t, g, h, perm, wq) ==
    LET x == GateExit(perm, wq, g, h.exc)
    IN  /\ permits' = x.permits
        /\ waiters' = x.waiters
        /\ pc' = Wake([pc EXCEPT ![t] = "done"], x.woken)
        /\ result' = [result EXCEPT ![t] = Outcome(h)]

\* get_secret_detail(**p) by task t, up to its first suspension: lines 411-422.
\* get_aim_session, the copy of the parameters, then the semaphore: entered at
\* once when it is free (and the request issued), else the task queues.
Start(t, p) ==
    /\ ctor = "ok"
    /\ pc[t] = "idle"
    /\ CanOpen
    /\ LET url == get_url("Accounts")
           h == get_aim_session(Handle)
           pnew == ParamsNew(p)
           e == SessionRequestError(h.session)
       IN  /\ params' = [params EXCEPT ![t] = p]
           /\ session' = h.session
           /\ sema' = h.sema
           /\ request_params' = h.request_params
           /\ cfg' = [cfg EXCEPT !.verify = h.verify]
           /\ nsess' = h.nsess
           /\ ngate' = h.ngate
           /\ nctx' = h.nctx
           /\ IF h.err # ""
              THEN /\ pc' = [pc EXCEPT ![t] = "done"]
                   /\ result' = [result EXCEPT ![t] =
                                    Outcome(Failed("AiobastionException", h.err))]
                   /\ permits' = h.permits
                   /\ UNCHANGED <<waiters, sent, tsess, tgate>>
              ELSE /\ tsess' = [tsess EXCEPT ![t] = h.session]
                   /\ tgate' = [tgate EXCEPT ![t] = h.sema]
                   /\ IF Locked(h.permits, waiters, h.sema)
                      THEN /\ waiters' = [waiters EXCEPT ![h.sema] = Append(@, t)]
                           /\ pc' = [pc EXCEPT ![t] = "waiting"]
                           /\ sent' = [sent EXCEPT ![t] =
                                          [made |-> FALSE, url |-> url, params |-> pnew, ctx |-> 0]]
                           /\ permits' = h.permits
                           /\ UNCHANGED result
                      ELSE LET held == [h.permits EXCEPT ![h.sema] = @ - 1]
                           IN  IF e # ""
                               THEN /\ Leave(t, h.sema, Failed(e, "session"), held, waiters)
                                    /\ sent' = [sent EXCEPT ![t] =
                                          [made |-> FALSE, url |-> url, params |-> pnew, ctx |-> 0]]
                               ELSE /\ permits' = held
                                    /\ pc' = [pc EXCEPT ![t] = "sent"]
                                    /\ sent' = [sent EXCEPT ![t] =
                                          [made |-> TRUE, url |-> url, params |-> pnew, ctx |-> h.nctx]]
                                    /\ UNCHANGED <<waiters, result>>
    /\ lastClose' = IF mgr = "idle" THEN NoClose ELSE lastClose
    /\ UNCHANGED <<closedSessions, answer, mgr, scope, ctor,
                   vsp, conf>>

\* Task t, woken with a permit, issues its request on the session it
\* obtained before it queued (line 422).
Resume(t) ==
    /\ pc[t] = "granted"
    /\ LET e == SessionRequestError(tsess[t])
       IN  IF e # ""
           THEN /\ Leave(t, tgate[t], Failed(e, "session"), permits, waiters)
                /\ UNCHANGED sent
           ELSE /\ pc' = [pc EXCEPT ![t] = "sent"]
                /\ sent' = [sent EXCEPT ![t].made = TRUE, ![t].ctx = nctx]
                /\ UNCHANGED <<permits, waiters, result>>
    /\ UNCHANGED <<cfg, session, sema, request_params, nsess, ngate, closedSessions,
                   params, tsess, tgate, answer, mgr, scope, lastClose, ctor,
                   nctx, vsp, conf>>

\* The network answers task t's request with resp: lines 422-468, then the
\* permit is released and get_secret_detail builds its result.
Respond(t, resp) ==
    /\ pc[t] = "sent"
    /\ answer' = [answer EXCEPT ![t] = resp]
    /\ LET h == ClassifyResponse(sent[t].url, sent[t].params, resp)
       IN  /\ Leave(t, tgate[t], h, permits, waiters)
           /\ sent' = [sent EXCEPT ![t].params =
                          IF h.details.from = "request" THEN AfterDetailInfo(@) ELSE @]
    /\ UNCHANGED <<cfg, session, sema, request_params, nsess, ngate, closedSessions,
                   params, tsess, tgate, mgr, scope, lastClose, ctor,
                   nctx, vsp, conf>>

\* ------------------------------------------------------------------ the session's life cycle

\* Write a handle back to the client's fields.
Store(h) ==
    /\ session' = h.session
    /\ sema' = h.sema
    /\ request_params' = h.request_params
    /\ cfg' = [cfg EXCEPT !.verify = h.verify]
    /\ nsess' = h.nsess
    /\ ngate' = h.ngate
    /\ permits' = h.permits
    /\ nctx' = h.nctx

\* An explicit get_aim_session() call; an exception it raises goes to the caller.
GetAimSession ==
    /\ ctor = "ok"
    /\ mgr = "idle"
    /\ CanOpen
    /\ LET h == get_aim_session(Handle)
       IN  Store(h)
    /\ lastClose' = NoClose
    /\ UNCHANGED <<closedSessions, waiters, pc, params, sent, tsess, tgate, answer,
                   result, mgr, scope, ctor,
                   vsp, conf>>

\* __aenter__ (lines 292-295): the block is entered when get_aim_session
\* raised nothing.
AEnter ==
    /\ ctor = "ok"
    /\ mgr = "idle"
    /\ scope = "out"
    /\ CanOpen
    /\ LET h == get_aim_session(Handle)
       IN  /\ Store(h)
           /\ scope' = IF h.err = "" THEN "in" ELSE "out"
    /\ lastClose' = NoClose
    /\ UNCHANGED <<closedSessions, waiters, pc, params, sent, tsess, tgate, answer,
                   result, mgr, ctor,
                   vsp, conf>>

\* set_semaphore(g, s), called by the collaborator.
SetSemaphore(g, s) ==
    /\ ctor = "ok"
    /\ mgr = "idle"
    /\ Store(set_semaphore(Handle, g, s))
    /\ lastClose' = NoClose
    /\ UNCHANGED <<closedSessions, waiters, pc, params, sent, tsess, tgate, answer,
                   result, mgr, scope, ctor,
                   vsp, conf>>

\* Faulty variant of SessionClose: no `if self.session` guard and no
\* AttributeError in the except clause, so closing None raises.
SessionCloseUnguarded(s, closeErr) ==
    IF s = NoRef \/ s.kind = "invalid"
    THEN [closed |-> {}, outcome |-> "raised:AttributeError", suspends |-> FALSE]
    ELSE [closed |-> {s}, outcome |-> "closed", suspends |-> TRUE]

\* Faulty variant of SessionClose: a session the client did not create is
\* left open.
SessionCloseOwnOnly(s, closeErr) ==
    IF s = NoRef \/ s.kind = "epv"
    THEN [closed |-> {}, outcome |-> "noop", suspends |-> FALSE]
    ELSE IF s.kind = "invalid"
         THEN [closed |-> {}, outcome |-> "swallowed:" \o closeErr, suspends |-> FALSE]
         ELSE [closed |-> {s}, outcome |-> "closed", suspends |-> TRUE]

\* Lines 315-322 of close_aim_session: what `await self.session.close()` does
\* for the session held. A real session is closed and the coroutine may
\* suspend; an object that is no session raises closeErr, which is swallowed.
SessionClose(s, closeErr) ==
    IF s = NoRef THEN [closed |-> {}, outcome |-> "noop", suspends |-> FALSE]
    ELSE IF s.kind = "invalid"
         THEN [closed |-> {}, outcome |-> "swallowed:" \o closeErr, suspends |-> FALSE]
         ELSE [closed |-> {s}, outcome |-> "closed", suspends |-> TRUE]

\* Faulty variant of ClearRefs: the semaphore reference is kept.
ClearRefsKeepSema ==
    /\ session' = NoRef
    /\ UNCHANGED <<sema, request_params>>

\* Lines 324-325 of close_aim_session: both references are cleared; the
\* cached request_params stay.
ClearRefs ==
    /\ session' = NoRef
    /\ sema' = NoRef
    /\ UNCHANGED request_params

\* close_aim_session() called directly (by = "close") or by __aexit__
\* (by = "aexit", the block left with an exception or without), up to the
\* suspension in session.close().
CloseBegin(by, exc, closeErr) ==
    /\ ctor = "ok"
    /\ mgr = "idle"
    /\ LET c == SessionClose(session, closeErr)
       IN  /\ closedSessions' = closedSessions \cup c.closed
           /\ lastClose' = [by |-> by, exc |-> exc, target |-> session,
                            outcome |-> IF c.suspends THEN "pending" ELSE c.outcome]
           /\ IF c.suspends
              THEN /\ mgr' = "closing"
                   /\ UNCHANGED <<session, sema, request_params, scope>>
              ELSE /\ ClearRefs
                   /\ mgr' = "idle"
                   /\ scope' = IF by = "aexit" THEN "left" ELSE scope
    /\ UNCHANGED <<cfg, nsess, ngate, permits, waiters, pc, params,
                   sent, tsess, tgate, answer, result, ctor,
                   nctx, vsp, conf>>

\* An explicit close_aim_session() call.
CloseAimSession(closeErr) == CloseBegin("close", FALSE, closeErr)

\* Faulty variant of aexit_closes: the session is closed on a normal exit only.
aexit_closes_normal(exc) == ~exc

\* __aexit__(exc_type, exc, tb), line 298: whether it awaits
\* close_aim_session, given that the block raised (exc) or not.
aexit_closes(exc) == TRUE

\* __aexit__ (lines 297-298): the block is left, by an exception (exc) or
\* normally.
AExit(exc, closeErr) ==
    /\ scope = "in"
    /\ IF aexit_closes(exc)
       THEN CloseBegin("aexit", exc, closeErr)
       ELSE /\ mgr = "idle"
            /\ scope' = "left"
            /\ lastClose' = [by |-> "aexit", exc |-> exc, target |-> session,
                             outcome |-> "skipped"]
            /\ UNCHANGED <<cfg, session, sema, request_params, nsess, ngate,
                           closedSessions, permits, waiters, pc, params, sent, tsess,
                           tgate, answer, result, mgr, ctor,
                   nctx, vsp, conf>>

\* close_aim_session after session.close() has returned.
CloseEnd ==
    /\ ctor = "ok"
    /\ mgr = "closing"
    /\ ClearRefs
    /\ mgr' = "idle"
    /\ lastClose' = [lastClose EXCEPT !.outcome = "closed"]
    /\ scope' = IF lastClose.by = "aexit" THEN "left" ELSE scope
    /\ UNCHANGED <<cfg, nsess, ngate, closedSessions, permits, waiters,
                   pc, params, sent, tsess, tgate, answer, result, ctor,
                   nctx, vsp, conf>>

\* __init__ on the arguments held in cfg: the client exists unless the
\* check of verify raised.
Construct ==
    /\ ctor = "new"
    /\ ctor' = IF init_error(cfg) = "" THEN "ok" ELSE "raised"
    /\ UNCHANGED <<cfg, session, sema, request_params, nsess, ngate, closedSessions,
                   permits, waiters, pc, params, sent, tsess, tgate, answer, result,
                   mgr, scope, lastClose, nctx, vsp, conf>>

\* A direct call of validate_and_setup_aim_ssl(); an exception it raises goes
\* to the caller.
ValidateAndSetup ==
    /\ ctor = "ok"
    /\ mgr = "idle"
    /\ nctx < MaxBuilds
    /\ Store(validate_and_setup_aim_ssl(Handle))
    /\ UNCHANGED <<closedSessions, waiters, pc, params, sent, tsess, tgate, answer,
                   result, mgr, scope, lastClose, ctor,
                   vsp, conf>>

\* The application assigns v to the client's attribute f (host or cert)
\* after the first session was created.
SetAttr(f, v) ==
    /\ ctor = "ok"
    /\ nsess > 0
    /\ cfg[f] # v
    /\ cfg' = [cfg EXCEPT ![f] = v]
    /\ UNCHANGED <<session, sema, request_params, nsess, ngate, closedSessions,
                   permits, waiters, pc, params, sent, tsess, tgate, answer, result,
                   mgr, scope, lastClose, ctor, nctx, vsp, conf>>

\* A call of valid_secret_params on the mapping held in vsp.
ValidSecretParams ==
    /\ vsp.pc = "called"
    /\ LET r == valid_secret_params(vsp.arg)
       IN  vsp' = [vsp EXCEPT !.pc = "returned", !.mapping = r.mapping,
                              !.error = r.error, !.raised = r.raised]
    /\ UNCHANGED <<cfg, session, sema, request_params, nsess, ngate, closedSessions,
                   permits, waiters, pc, params, sent, tsess, tgate, answer, result,
                   mgr, scope, lastClose, ctor, nctx, conf>>

\* config.py line 189: _init_validate_class_attributes on the section held in
\* conf.
InitValidateClassAttributes ==
    /\ conf.pc = "called"
    /\ conf.via = "section"
    /\ LET r == init_validate_class_attributes(conf.section)
       IN  conf' = [conf EXCEPT !.pc = "done", !.stored = r.stored, !.raised = r.raised]
    /\ UNCHANGED <<cfg, session, sema, request_params, nsess, ngate, closedSessions,
                   permits, waiters, pc, params, sent, tsess, tgate, answer, result,
                   mgr, scope, lastClose, ctor, nctx, vsp>>

\* EPV_AIM(serialized=...) on the map held in conf.
ConstructSerialized ==
    /\ conf.pc = "called"
    /\ conf.via = "serialized"
    /\ LET r == init_serialized(conf.section)
       IN  conf' = [conf EXCEPT !.pc = "done", !.stored = r.stored, !.raised = r.raised]
    /\ UNCHANGED <<cfg, session, sema, request_params, nsess, ngate, closedSessions,
                   permits, waiters, pc, params, sent, tsess, tgate, answer, result,
                   mgr, scope, lastClose, ctor, nctx, vsp>>

\* ------------------------------------------------------------------ specifications

CloseErrors == {"AttributeError", "CyberarkException"}

\* NumTasks calls issued concurrently on one client, which opens its session
\* explicitly or lazily.
Next ==
    \/ \E t \in Tasks, p \in ConcParams : Start(t, p)
    \/ \E t \in Tasks : Resume(t)
    \/ \E t \in Tasks, r \in ConcResponses : Respond(t, r)
    \/ GetAimSession

Spec == Init /\ [][Next]_vars

\* NumTasks calls issued concurrently, each answered with a secret or with a
\* transport failure; the scheduler runs every task that can run and the
\* network answers every request.
FairResponses ==
    {Resp("ok", 200, SuccessBody), Resp("ClientConnectorError", 200, NoBody)}

FairNext ==
    \/ \E t \in Tasks, p \in ConcParams : Start(t, p)
    \/ \E t \in Tasks : Resume(t)
    \/ \E t \in Tasks, r \in FairResponses : Respond(t, r)

FairSpec ==
    /\ Init
    /\ [][FairNext]_vars
    /\ \A t \in Tasks : WF_vars(Resume(t))
    /\ \A t \in Tasks : WF_vars(\E r \in FairResponses : Respond(t, r))

\* The session's life cycle in full (explicit open and close, the scoped
\* block, the collaborator's hand-over) around the calls of two tasks.
LifeTasks == {1, 2}

LifeNext ==
    \/ \E t \in LifeTasks, p \in ConcParams : Start(t, p)
    \/ \E t \in LifeTasks : Resume(t)
    \/ \E t \in LifeTasks, r \in ConcResponses : Respond(t, r)
    \/ GetAimSession
    \/ AEnter
    \/ \E s \in {EpvRef, BadRef} : SetSemaphore(EpvRef, s)
    \/ \E ce \in CloseErrors : CloseAimSession(ce)
    \/ \E exc \in BOOLEAN, ce \in CloseErrors : AExit(exc, ce)
    \/ CloseEnd

LifeSpec == Init /\ [][LifeNext]_vars

\* One call, over every parameter mapping and every answer of the network.
CallNext ==
    \/ \E p \in AllParams : Start(1, p)
    \/ \E r \in AllResponses : Respond(1, r)

CallSpec == Init /\ [][CallNext]_vars

\* Construction from every combination of arguments, then the TLS set-up
\* called directly and through the session, around one call.
BuildParams == {ParamsOf({"safe"}), ParamsOf({"safe", "appid"})}

BuildResponses ==
    {Resp("ok", 200, SuccessBody), Resp("ok", 404, NotFoundBody),
     Resp("ClientConnectorError", 200, NoBody)}

BuildNext ==
    \/ Construct
    \/ ValidateAndSetup
    \/ GetAimSession
    \/ CloseAimSession("AttributeError")
    \/ CloseEnd
    \/ \E p \in BuildParams : Start(1, p)
    \/ \E r \in BuildResponses : Respond(1, r)

BuildSpec == BuildInit /\ [][BuildNext]_vars

\* Calls of two tasks on a client whose host and cert the application
\* changes once the session exists.
AttrValues == [host |-> {"vault", "other"}, cert |-> {"client.pem", "ca.pem"}]

MutNext ==
    \/ \E t \in LifeTasks : Start(t, ParamsOf({"safe"}))
    \/ \E t \in LifeTasks : Resume(t)
    \/ \E t \in LifeTasks, r \in FairResponses : Respond(t, r)
    \/ GetAimSession
    \/ \E f \in {"host", "cert"} : \E v \in AttrValues[f] : SetAttr(f, v)

MutSpec == Init /\ [][MutNext]_vars

\* valid_secret_params called on every argument of the model.
ValidInit ==
    /\ cfg \in {c \in Configs : c.host = "vault" /\ c.cert = "client.pem"
                                   /\ c.max_concurrent_tasks = 1}
    /\ ctor = "ok"
    /\ Fresh
    /\ vsp \in {[pc |-> "called", arg |-> a, mapping |-> a.items, error |-> NoError,
                  raised |-> ""] : a \in VspArgs}
    /\ conf = NoSection

ValidNext == ValidSecretParams

ValidSpec == ValidInit /\ [][ValidNext]_vars

\* Every section of the model handed to _init_validate_class_attributes and
\* to the constructor.
ConfigInit ==
    /\ cfg \in {c \in Configs : c.host = "vault" /\ c.cert = "client.pem"
                                   /\ c.max_concurrent_tasks = 1}
    /\ ctor = "ok"
    /\ Fresh
    /\ vsp = NoValidation
    /\ conf \in {[pc |-> "called", via |-> w, section |-> sec, stored |-> <<>>,
                   raised |-> ""] : w \in {"section", "serialized"}, sec \in Sections}

ConfigNext ==
    \/ InitValidateClassAttributes
    \/ ConstructSerialized

ConfigSpec == ConfigInit /\ [][ConfigNext]_vars


\* ------------------------------------------------------------------ properties

\* The tasks between the acquisition of a permit and its release: woken with
\* the permit, or with their request in flight.
InFlight == {t \in Tasks : pc[t] \in {"granted", "sent"}}

\* The tasks holding a permit of semaphore g.
Holders(g) == {t \in InFlight : tgate[t] = g}

\* The permits semaphore g was created with.
Capacity(g) == IF g.kind = "own" THEN cfg.max_concurrent_tasks ELSE MaxConcurrent

\* The semaphores that exist.
LiveGates == {g \in Gates : g.kind = "own" => g.id <= ngate}

Terminal == {"Success", "DomainError", "TransportError"}

\* C1: of the calls issued concurrently on one client, never more than
\* max_concurrent_tasks are between acquiring and releasing the semaphore.
C1_BoundedInFlight == Cardinality(InFlight) <= cfg.max_concurrent_tasks

\* C1 witness: more calls than permits; max_concurrent_tasks of them hold a
\* permit with their request sent and another one waits.
C1_Witness ==
    /\ NumTasks > cfg.max_concurrent_tasks
    /\ Cardinality({t \in Tasks : pc[t] = "sent"}) = cfg.max_concurrent_tasks
    /\ \E t \in Tasks : pc[t] = "waiting"

\* C2 (as claimed): a call whose mapping holds a key outside the allow-list
\* never sends a request and ends with a validation error.
C2_UnknownKeyNeverSent ==
    \A t \in Tasks :
        (pc[t] # "idle" /\ HasUnknownKey(params[t])) =>
            /\ ~sent[t].made
            /\ pc[t] = "done" => result[t].exc = "ValidationError"

\* C3 (as claimed): every call whose request was answered by a response,
\* whatever its status and body, ends in exactly one of Success, DomainError
\* and TransportError.
C3_ThreeTerminalStates ==
    \A t \in Tasks :
        (pc[t] = "done" /\ answer[t].net = "ok") => result[t].class \in Terminal

\* C4: every semaphore's permits are either in its counter or held by a call
\* inside its block, on whatever path calls left it; so with no call in
\* flight the client's semaphore holds all the permits it was created with.
C4_PermitsReleased ==
    /\ \A g \in LiveGates : permits[g] + Cardinality(Holders(g)) = Capacity(g)
    /\ (sema.kind = "own" /\ InFlight = {}) => permits[sema] = cfg.max_concurrent_tasks

\* C4 witness: one call left by an exception outside the classes after its
\* request was sent, another by a classified failure, and the semaphore both
\* used is the client's and has all its permits back.
C4_Witness ==
    /\ InFlight = {}
    /\ sema.kind = "own"
    /\ permits[sema] = cfg.max_concurrent_tasks
    /\ \E a, b \in Tasks :
          /\ pc[a] = "done" /\ pc[b] = "done"
          /\ tgate[a] = sema /\ tgate[b] = sema
          /\ sent[a].made /\ result[a].class = "Unclassified"
          /\ sent[b].made /\ result[b].class \in {"DomainError", "TransportError"}

\* C5: under fair scheduling, with every request answered, every call that
\* was issued ends, whatever the other calls end with.
C5_EveryCallEnds ==
    \A t \in Tasks : (pc[t] \in {"waiting", "granted", "sent"}) ~> (pc[t] = "done")

\* C5 witness: all NumTasks calls were issued; one has failed after its
\* request was sent, and another still waits at the semaphore behind the
\* calls in flight.
C5_Witness ==
    /\ \A t \in Tasks : pc[t] # "idle"
    /\ \E t \in Tasks : pc[t] = "done" /\ sent[t].made /\ result[t].class # "Success"
    /\ \E t \in Tasks : pc[t] = "waiting"
    /\ Cardinality(InFlight) = cfg.max_concurrent_tasks

\* A close_aim_session that has run to its end.
Finished(lc) == lc.by # "none" /\ lc.outcome \notin {"pending", "skipped"}

\* C6: while the client holds a session no step creates another one, and
\* none replaces it; likewise for the semaphore; an open step creates at
\* most one of each, and every call gets the session the client holds.
C6_OneSession ==
    [][ /\ nsess' \in {nsess, nsess + 1}
        /\ ngate' \in {ngate, ngate + 1}
        /\ session # NoRef => (nsess' = nsess /\ session' \in {session, NoRef})
        /\ sema # NoRef => (ngate' = ngate /\ sema' \in {sema, NoRef})
        /\ \A t \in Tasks :
              (pc[t] = "idle" /\ pc'[t] # "idle" /\ session # NoRef)
                  => tsess'[t] = session ]_vars

\* C6 witness: two calls went through get_aim_session with no close between
\* them; one session and one semaphore were created and both calls have them.
C6_Witness ==
    /\ nsess = 1 /\ ngate = 1 /\ closedSessions = {}
    /\ session = OwnRef(1) /\ sema = OwnRef(1)
    /\ \E a, b \in Tasks :
          /\ a # b /\ pc[a] # "idle" /\ pc[b] # "idle"
          /\ tsess[a] = session /\ tsess[b] = session
          /\ tgate[a] = sema /\ tgate[b] = sema

\* C7: when close_aim_session has run, also with the error of
\* session.close() swallowed, session and semaphore are None; the next
\* get_aim_session creates a new session, never closed, and a new semaphore
\* with max_concurrent_tasks permits.
C7_CloseClears ==
    [][ /\ Finished(lastClose') => (session' = NoRef /\ sema' = NoRef)
        /\ (Finished(lastClose) /\ session'.kind = "own") =>
              /\ session' = OwnRef(nsess + 1)
              /\ session' \notin closedSessions'
              /\ sema' = OwnRef(ngate + 1)
              /\ permits'[sema']
                   + Cardinality({t \in Tasks : /\ pc'[t] \in {"granted", "sent"}
                                                /\ tgate'[t] = sema'})
                 = cfg.max_concurrent_tasks ]_vars

\* C7 witness: a call used the collaborator's object whose close() raises;
\* the client was closed (the error swallowed) and a later call got a
\* session and a semaphore created anew.
C7_Witness ==
    /\ session = OwnRef(1) /\ sema = OwnRef(1)
    /\ \E a, b \in Tasks :
          /\ pc[a] = "done" /\ tsess[a] = BadRef
          /\ pc[b] # "idle" /\ tsess[b] = OwnRef(1) /\ tgate[b] = OwnRef(1)

\* C8: close_aim_session on a client that holds no session raises nothing,
\* closes nothing and leaves session and semaphore None and the TLS
\* parameters as they were.
C8_CloseNothingIsNoop ==
    [][ (/\ mgr = "idle" /\ session = NoRef
         /\ lastClose' # lastClose /\ lastClose'.by # "none") =>
            /\ lastClose'.outcome = "noop"
            /\ mgr' = "idle"
            /\ session' = NoRef /\ sema' = NoRef
            /\ request_params' = request_params
            /\ cfg' = cfg
            /\ closedSessions' = closedSessions
            /\ nsess' = nsess /\ ngate' = ngate /\ permits' = permits ]_vars

\* C8 witness: close_aim_session has run on a client that never opened or
\* received a session.
C8_Witness ==
    /\ lastClose.by = "close" /\ lastClose.outcome = "noop"
    /\ nsess = 0 /\ ngate = 0 /\ closedSessions = {}
    /\ request_params = "None"
    /\ session = NoRef /\ sema = NoRef

\* C9: once an async with block is left, by an exception or normally, the
\* session it held is closed and session and semaphore are None.
C9_BlockExitCloses ==
    (scope = "left" /\ lastClose.by = "aexit" /\ lastClose.outcome # "pending") =>
        /\ session = NoRef
        /\ sema = NoRef
        /\ lastClose.target.kind \in {"own", "epv"} => lastClose.target \in closedSessions

\* C9 witness: a request sent on the block's session failed, the block was
\* left by the exception, and the session is closed and cleared.
C9_Witness ==
    /\ scope = "left" /\ lastClose.by = "aexit" /\ lastClose.exc
    /\ lastClose.outcome = "closed"
    /\ session = NoRef /\ sema = NoRef
    /\ \E t \in Tasks :
          /\ pc[t] = "done" /\ sent[t].made /\ result[t].class # "Success"
          /\ tsess[t] = lastClose.target

\* A response with status 200 whose body is a JSON object holding Content.
IsSecretAnswer(r) ==
    /\ r.net = "ok" /\ r.status = 200
    /\ r.body.kind = "object" /\ "Content" \in DOMAIN r.body.fields

\* C10: for a 200 response whose JSON object holds Content,
\* get_secret_detail returns secret = body["Content"] and detail = the body,
\* field for field, and get_secret returns that secret.
C10_SecretRoundTrip ==
    \A t \in Tasks :
        (pc[t] = "done" /\ IsSecretAnswer(answer[t])) =>
            /\ result[t].exc = ""
            /\ result[t].value.secret = answer[t].body.fields["Content"]
            /\ result[t].value.detail = answer[t].body.fields
            /\ result[t].password = answer[t].body.fields["Content"]

\* C10 witness: the answer {"Content": "p@ss", "X": 1} was returned as
\* secret "p@ss" with that very detail.
C10_Witness ==
    \E t \in Tasks :
        /\ pc[t] = "done"
        /\ answer[t] = Resp("ok", 200, SuccessBody)
        /\ result[t].value = [secret |-> "p@ss", detail |-> SuccessBody.fields]
        /\ result[t].password = "p@ss"

\* ------------------------------------------------------------------ classification of responses

\* The bodies req.json() parses: any JSON value.
JsonKinds == {"object", "string", "list", "null", "number"}

\* A parsed body without the field k: a JSON object that has no such member,
\* or a JSON value that has no members at all.
LacksField(b, k) ==
    /\ b.kind \in JsonKinds
    /\ b.kind = "object" => k \notin DOMAIN b.fields

\* A parsed body that is an object with the field k.
HasField(b, k) == b.kind = "object" /\ k \in DOMAIN b.fields

\* The calls that ended after the network answered their request with a response.
Answered == {t \in Tasks : pc[t] = "done" /\ answer[t].net = "ok"}

\* C11 (as claimed): status 200 with a JSON body that has no Content field
\* always ends in CyberarkAPIException with code INVALID_JSON.
C11_NoContentIsInvalidJson ==
    \A t \in Answered :
        (answer[t].status = 200 /\ LacksField(answer[t].body, "Content")) =>
            /\ result[t].exc = "CyberarkAPIException"
            /\ result[t].code = "INVALID_JSON"

\* C12: a status other than 200 with a JSON object holding ErrorCode and
\* ErrorMsg ends in CyberarkAIMnotFound when ErrorCode is APPAP004E and in
\* CyberarkAPIException otherwise, with the HTTP status and the body's
\* ErrorCode and ErrorMsg as they came.
C12_ErrorCodeClassified ==
    \A t \in Answered :
        LET b == answer[t].body
        IN  (answer[t].status # 200 /\ HasField(b, "ErrorCode") /\ HasField(b, "ErrorMsg")) =>
                /\ result[t].exc = IF b.fields["ErrorCode"] = "APPAP004E"
                                   THEN "CyberarkAIMnotFound" ELSE "CyberarkAPIException"
                /\ result[t].status = answer[t].status
                /\ result[t].code = b.fields["ErrorCode"]
                /\ result[t].msg = b.fields["ErrorMsg"]

\* C12 witness: status 599 with {"ErrorCode": "APPAP008E", "ErrorMsg": ..,
\* "Content": ..} ended in CyberarkAPIException carrying 599 and that code.
C12_Witness ==
    \E t \in Answered :
        /\ answer[t].status = 599
        /\ DOMAIN answer[t].body.fields = {"ErrorCode", "ErrorMsg", "Content"}
        /\ answer[t].body.fields["ErrorCode"] = "APPAP008E"
        /\ result[t].exc = "CyberarkAPIException"
        /\ result[t].status = 599
        /\ result[t].code = "APPAP008E"
        /\ result[t].msg = "msg of APPAP008E"

\* C13 (as claimed): a status other than 200 with a JSON body that lacks
\* ErrorCode or ErrorMsg ends in CyberarkAPIException with code HTTP_ERR_CODE
\* and the reason phrase of the status.
C13_HttpErrCode ==
    \A t \in Answered :
        LET b == answer[t].body
        IN  (answer[t].status # 200 /\ (LacksField(b, "ErrorCode") \/ LacksField(b, "ErrorMsg"))) =>
                /\ result[t].exc = "CyberarkAPIException"
                /\ result[t].code = "HTTP_ERR_CODE"
                /\ result[t].msg = Phrase(answer[t].status)

\* C14 (as claimed): a body that fails to decode as JSON, under any status,
\* ends in CyberarkAPIException with code HTTP_ERR_CODE and the reason phrase
\* of the status.
C14_NotJsonIsHttpErrCode ==
    \A t \in Answered :
        answer[t].body.kind = "notjson" =>
            /\ result[t].exc = "CyberarkAPIException"
            /\ result[t].code = "HTTP_ERR_CODE"
            /\ result[t].msg = Phrase(answer[t].status)

\* C15 (as claimed): every transport failure of the request, a timeout and a
\* cancellation by the caller's timeout included, ends in CyberarkException
\* carrying the transport error and the masked description of the request.
C15_TransportFailureWrapped ==
    \A t \in Tasks :
        (pc[t] = "done" /\ answer[t].net \in NetFailures) =>
            /\ result[t].exc = "CyberarkException"
            /\ result[t].msg = answer[t].net
            /\ result[t].details = handle_error_detail_info(sent[t].url, sent[t].params)

\* C17 (as claimed): the query parameters of a request sent are the caller's
\* parameters plus appid, the caller's own value when there is one and the
\* client's appid otherwise.
C17_AppidInjected ==
    \A t \in Tasks :
        sent[t].made =>
            /\ DOMAIN sent[t].params = DOMAIN params[t] \cup {"appid"}
            /\ \A k \in DOMAIN params[t] : sent[t].params[k] = params[t][k]
            /\ "appid" \notin DOMAIN params[t] => sent[t].params["appid"] = cfg.appid

\* ------------------------------------------------------------------ the request description

\* The appid of the request task t sent: the caller's own or the client's.
RealAppid(t) ==
    IF "appid" \in DOMAIN params[t] THEN params[t]["appid"] ELSE cfg.appid

\* The calls that failed with the description of their request as details.
Described == {t \in Tasks : pc[t] = "done" /\ result[t].details.from = "request"}

\* C16: the description of a request reported with an error is the one the
\* same request yields under any other appid value, it shows appid as
\* "<hidden>", and the mapping sent still holds the real appid afterwards.
C16_DescriptionHidesAppid ==
    \A t \in Described :
        "appid" \in DOMAIN sent[t].params =>
            /\ \A a \in AppIds \cup {ParamValue("appid")} :
                  handle_error_detail_info(sent[t].url, [sent[t].params EXCEPT !["appid"] = a])
                      = result[t].details
            /\ result[t].details.params["appid"] = "<hidden>"
            /\ \A k \in DOMAIN sent[t].params \ {"appid"} :
                  result[t].details.params[k] = sent[t].params[k]
            /\ sent[t].params["appid"] = RealAppid(t)

\* C16 witness: a client with appid "app2" whose call, made without an
\* appid, failed in transport: the description says "<hidden>", the mapping
\* sent says "app2".
C16_Witness ==
    \E t \in Described :
        /\ cfg.appid = "app2"
        /\ "appid" \notin DOMAIN params[t]
        /\ result[t].exc = "CyberarkException"
        /\ result[t].details.params["appid"] = "<hidden>"
        /\ sent[t].made /\ sent[t].params["appid"] = "app2"

\* ------------------------------------------------------------------ construction and TLS set-up

\* The mandatory fields that are None or empty in configuration c.
MissingFields(c) == {f \in {"host", "appid", "cert"} : c[f] \in {NoneStr, ""}}

\* The errors that name field f.
ErrorsNaming(f) == {"Missing:" \o f, "NotFound:" \o f}

\* C18 (as claimed): on a client whose host, appid or cert is None or empty
\* no TLS parameters, session or semaphore are ever created, and a call
\* ends with the configuration error that names a missing field.
C18_MissingFieldRejected ==
    (ctor = "ok" /\ MissingFields(cfg) # {}) =>
        /\ request_params = "None" /\ nctx = 0
        /\ session = NoRef /\ nsess = 0
        /\ sema = NoRef /\ ngate = 0
        /\ \A t \in Tasks :
              pc[t] = "done" =>
                  /\ result[t].exc = "AiobastionException"
                  /\ \E f \in MissingFields(cfg) : result[t].msg \in ErrorsNaming(f)

\* C19 (as claimed): __init__ succeeds exactly for a verify that is a
\* boolean or a string, and verify stays a boolean or a string afterwards.
C19_VerifyForms ==
    /\ ctor = "ok" => cfg.verify.type \in {"bool", "str"}
    /\ ctor = "raised" => cfg.verify.type \notin {"bool", "str"}

\* C20 (as claimed): once the TLS parameters are built and no session has
\* been closed since, a call of validate_and_setup_aim_ssl changes nothing:
\* no new context, request_params and verify as they were.
C20_BuilderIdempotent ==
    [][(ValidateAndSetup /\ request_params = "built" /\ closedSessions = {}
            /\ lastClose = NoClose)
          => UNCHANGED <<request_params, nctx, cfg>>]_vars

\* ------------------------------------------------------------------ attributes changed after the session exists

\* C21 (as claimed): all requests of a client go to the same URL with the
\* same TLS parameters, whatever is assigned to host or cert once the
\* session exists.
C21_ConfigFrozen ==
    \A a, b \in Tasks :
        (sent[a].made /\ sent[b].made) =>
            /\ sent[a].url = sent[b].url
            /\ sent[a].ctx = sent[b].ctx

\* ------------------------------------------------------------------ the collaborator's session and semaphore

\* The client holds, or has held and closed, the collaborator's session.
HandedOver == session.kind = "epv" \/ EpvRef \in closedSessions

\* C22 (as claimed): once the collaborator's session was handed to the
\* client, the client never creates a session of its own.
C22_HandedOverForever == [][HandedOver => nsess' = nsess]_vars

\* C22 (amended): while the client holds the collaborator's session and
\* semaphore it creates none of its own, its calls run on that session under
\* that semaphore, and only a completed close_aim_session takes them away;
\* set_semaphore replaces neither a session nor a semaphore already held.
C22_HandedOverUntilClose ==
    [][ /\ session.kind = "epv" =>
              /\ nsess' = nsess
              /\ \/ session' = session
                 \/ session' = NoRef /\ Finished(lastClose') /\ lastClose'.target = session
        /\ sema.kind = "epv" =>
              /\ ngate' = ngate
              /\ sema' = sema \/ (sema' = NoRef /\ Finished(lastClose'))
        /\ \A t \in Tasks :
              (pc[t] = "idle" /\ pc'[t] # "idle" /\ session.kind = "epv") =>
                  /\ tsess'[t] = session
                  /\ sema # NoRef => tgate'[t] = sema
        /\ (\E s \in {EpvRef, BadRef} : SetSemaphore(EpvRef, s)) =>
              /\ session # NoRef => session' = session
              /\ sema # NoRef => sema' = sema ]_vars

\* C22 witness: the collaborator's session and semaphore were handed to a
\* client that had created nothing, and two calls run on them.
C22_Witness ==
    /\ session = EpvRef /\ sema = EpvRef
    /\ nsess = 0 /\ ngate = 0
    /\ \E a, b \in Tasks :
          /\ a # b /\ pc[a] # "idle" /\ pc[b] # "idle"
          /\ tsess[a] = EpvRef /\ tsess[b] = EpvRef
          /\ tgate[a] = EpvRef /\ tgate[b] = EpvRef

\* ------------------------------------------------------------------ the parameter validator's results

\* The finished call of valid_secret_params on a dict.
Returned == vsp.pc = "returned"

\* The positions of the keys of dict d that are not allowed.
Offending(d) == {i \in DOMAIN d : Lower(d[i].k) \notin GETPASSWORD_REQUEST_PARM}

\* The smallest member of a non-empty set of positions.
First(S) == CHOOSE i \in S : \A j \in S : i <= j

\* C23: valid_secret_params raises nothing; for an argument that is no dict
\* it returns "parameter is not a dictionary", for a dict with a key whose
\* lowercase form is not allowed an error with that key and its value, and
\* no error exactly when the lowercase form of every key is allowed.
C23_ValidatorReturnsErrors ==
    Returned =>
        LET d == vsp.arg.items
            bad == Offending(d)
        IN  /\ vsp.raised = ""
            /\ ~vsp.arg.isdict => vsp.error.msg = "parameter is not a dictionary"
            /\ (vsp.arg.isdict /\ bad # {}) =>
                  /\ vsp.error.msg = "unknown parameter"
                  /\ vsp.error.key = d[First(bad)].k
                  /\ vsp.error.value = d[First(bad)].v
            /\ vsp.error = NoError <=> (vsp.arg.isdict /\ bad = {})

\* C23 witness: {"Safe": v1, "foo": v2, "object": v3} was refused with
\* "unknown parameter: foo=v2".
C23_Witness ==
    /\ Returned
    /\ vsp.arg = DictArg(<<Entry("Safe", "v1"), Entry("foo", "v2"), Entry("object", "v3")>>)
    /\ vsp.error = [msg |-> "unknown parameter", key |-> "foo", value |-> "v2"]

\* C24 (as claimed): after a successful validation the dict has as many
\* entries as before, each under the lowercase form of its key with the
\* value it had, and the keys that were lowercase stand in the order they had.
C24_KeysLowercased ==
    (Returned /\ vsp.arg.isdict /\ vsp.error = NoError /\ vsp.raised = "") =>
        LET d == vsp.arg.items
            m == vsp.mapping
        IN  /\ Len(m) = Len(d)
            /\ \A i \in DOMAIN d : Entry(Lower(d[i].k), d[i].v) \in {m[j] : j \in DOMAIN m}
            /\ \A i, j \in DOMAIN d :
                  (i < j /\ d[i].k = Lower(d[i].k) /\ d[j].k = Lower(d[j].k)
                     /\ d[i].k \in Keys(m) /\ d[j].k \in Keys(m)) =>
                      IndexOf(m, d[i].k) < IndexOf(m, d[j].k)

\* C30 (as claimed): when valid_secret_params returns an error for a key
\* that is not allowed, the entries before that key stand under their
\* lowercase keys with their values, and that key's entry and the entries
\* after it are as they were.
C30_PartiallyNormalized ==
    (Returned /\ vsp.arg.isdict /\ vsp.error # NoError) =>
        LET d == vsp.arg.items
            m == vsp.mapping
            n == First(Offending(d))
        IN  /\ Len(m) = Len(d)
            /\ \A i \in DOMAIN d :
                  IF i < n THEN Entry(Lower(d[i].k), d[i].v) \in {m[j] : j \in DOMAIN m}
                  ELSE d[i] \in {m[j] : j \in DOMAIN m}

\* The known fields and synonyms of the AIM section.
KnownConfigKeys ==
    {"host", "appid", "cert", "key", "passphrase", "verify", "ca", "timeout",
     "max_concurrent_tasks", "maxtasks", "keep_cookies"}

\* The exceptions that report a configuration error.
ConfigurationErrors == {"AiobastionConfigurationException", "AiobastionException"}

\* The keys of the section validated, as written and in lowercase.
UnknownKeys == {k \in Keys(conf.section) : Lower(k) \notin KnownConfigKeys}
LowerKeys == {Lower(k) : k \in Keys(conf.section)}

\* C25: a section (or serialized constructor map) with a key that is none of
\* the known fields or synonyms, whatever its case, ends in a configuration
\* error, and no such key is in the configuration that results; a section
\* with both synonyms of a pair ends in a configuration error.
C25_UnknownKeyRejected ==
    conf.pc = "done" =>
        /\ UnknownKeys # {} => conf.raised \in ConfigurationErrors
        /\ conf.raised = "" =>
               \A k \in UnknownKeys : k \notin Keys(conf.stored) /\ Lower(k) \notin Keys(conf.stored)
        /\ ({"ca", "verify"} \subseteq LowerKeys \/ {"maxtasks", "max_concurrent_tasks"} \subseteq LowerKeys)
               => conf.raised \in ConfigurationErrors

\* The tasks holding a permit of a semaphore the client created, the
\* discarded ones included.
InFlightOwn == {t \in InFlight : tgate[t].kind = "own"}

\* C26: across close_aim_session and the lazy re-open, the calls holding a
\* permit of a semaphore of the client (the one discarded by close included)
\* are never more than max_concurrent_tasks.
C26_BoundedAcrossReopen == Cardinality(InFlightOwn) <= cfg.max_concurrent_tasks

BuilderFails == ValidateResult(cfg).err # ""

\* C29: on a client whose TLS set-up raises, the session and the TLS
\* parameters stay None and nothing is created, through get_aim_session and
\* through set_semaphore; the client creates no semaphore; every call ends in
\* the set-up's error, the set-up having run again, and sends no request.
C29_FailedBuildLeavesUnset ==
    BuilderFails =>
        /\ session = NoRef
        /\ request_params = "None"
        /\ nsess = 0 /\ ngate = 0 /\ nctx = 0
        /\ sema \in {NoRef, EpvRef}
        /\ \A t \in Tasks :
              /\ ~sent[t].made
              /\ pc[t] \in {"idle", "done"}
              /\ pc[t] = "done" =>
                    /\ result[t].exc = "AiobastionException"
                    /\ result[t].msg = ValidateResult(cfg).err

\* C29 witness: the set-up raises; two calls ended in its error, one after
\* the other, and set_semaphore has run, which left the session None.
C29_Witness ==
    /\ BuilderFails
    /\ sema = EpvRef /\ session = NoRef /\ request_params = "None"
    /\ \A t \in LifeTasks :
          /\ pc[t] = "done" /\ result[t].exc = "AiobastionException"
          /\ result[t].msg = ValidateResult(cfg).err


====
